---- MODULE Spec2Model ----
\* State machine of the QR generator component (src/src/App.tsx).
\* A text value is modelled by the QR segment mode node-qrcode picks for it
\* (texts of one mode only: digits, upper-case alphanumerics or bytes) and
\* its length in characters (UTF-8 bytes in byte mode); a colour is the
\* sequence of its hex nibbles without the leading '#'; a MIME type is the
\* sequence of its tokens, '/' included; a file is a record of its MIME type
\* and whether the browser can decode it.
EXTENDS Integers, Naturals, Sequences, FiniteSets, TLC

\* ---------------------------------------------------------------- bounds
MaxChanges == 3

\* ---------------------------------------------------------------- constants
\* Data codewords of versions 1..40 at error-correction level H (qrcode lib).
DataCodewordsH ==
    <<9, 16, 26, 36, 46, 60, 66, 86, 100, 122, 140, 158, 180, 197, 223, 253,
      283, 313, 341, 385, 406, 442, 464, 514, 538, 596, 628, 661, 701, 745,
      793, 845, 901, 961, 986, 1054, 1096, 1142, 1222, 1276>>

\* (width, modules + 2 * margin) pairs where floor((width / n) * n), computed
\* in IEEE doubles as node-qrcode's getImageWidth does, is width - 1
FloatShortfall ==
    {<<128, 49>>, <<192, 173>>, <<256, 49>>, <<256, 161>>, <<320, 77>>,
     <<384, 173>>, <<448, 97>>, <<448, 153>>, <<448, 157>>, <<512, 49>>,
     <<512, 161>>, <<640, 77>>, <<704, 69>>, <<768, 173>>, <<832, 45>>,
     <<832, 93>>, <<832, 165>>, <<896, 97>>, <<896, 153>>, <<896, 157>>,
     <<960, 117>>, <<960, 149>>, <<1024, 49>>, <<1024, 161>>}

EmptyText == [mode |-> "byte", len |-> 0]
Texts == {EmptyText, [mode |-> "byte", len |-> 1], [mode |-> "byte", len |-> 2],
          [mode |-> "byte", len |-> 1274], [mode |-> "numeric", len |-> 1274]}

Black == <<0, 0, 0, 0, 0, 0>>
White == <<15, 15, 15, 15, 15, 15>>
Red == <<15, 15, 0, 0, 0, 0>>
Green == <<0, 0, 15, 15, 0, 0>>
TransparentLight == <<0, 0, 0, 0, 0, 0, 0, 0>>
QrColors == {Black, Red}
BgColors == {White, Green}

NoFile == [mime |-> <<>>, decodes |-> FALSE]
GoodImage == [mime |-> <<"image", "/", "png">>, decodes |-> TRUE]
CorruptImage == [mime |-> <<"image", "/", "png", "corrupt">>, decodes |-> FALSE]
TextFile == [mime |-> <<"text", "/", "plain">>, decodes |-> FALSE]
BareImageType == [mime |-> <<"image">>, decodes |-> FALSE]
Files == {GoodImage, CorruptImage, TextFile, BareImageType}

LogoSizes == {20, 50}
QrSizes == {256, 128}

\* file.type.startsWith('image/')
IsImage(f) == Len(f.mime) >= 2 /\ f.mime[1] = "image" /\ f.mime[2] = "/"

\* alpha channel of a CSS hex colour: #rrggbbaa carries it, #rrggbb is opaque
Alpha(c) == IF Len(c) = 8 THEN c[7] * 16 + c[8] ELSE 255

\* character-count indicator bits of a segment (qrcode lib Mode.getCharCountIndicator)
CharCountBits(mode, v) ==
    CASE mode = "numeric" -> (IF v < 10 THEN 10 ELSE IF v < 27 THEN 12 ELSE 14)
      [] mode = "alphanumeric" -> (IF v < 10 THEN 9 ELSE IF v < 27 THEN 11 ELSE 13)
      [] OTHER -> (IF v < 10 THEN 8 ELSE 16)

\* data bits of a segment
DataBits(t) ==
    CASE t.mode = "numeric" ->
            10 * (t.len \div 3) + (IF t.len % 3 = 1 THEN 4 ELSE IF t.len % 3 = 2 THEN 7 ELSE 0)
      [] t.mode = "alphanumeric" -> 11 * (t.len \div 2) + 6 * (t.len % 2)
      [] OTHER -> 8 * t.len

FitsVersion(t, v) == 4 + CharCountBits(t.mode, v) + DataBits(t) <= 8 * DataCodewordsH[v]

\* QRCode.toCanvas succeeds iff the text fits a level-H symbol of some version
EncodeOk(t) == \E v \in 1..40 : FitsVersion(t, v)

\* smallest version that holds the text (Version.getBestVersionForData)
BestVersion(t) ==
    IF EncodeOk(t)
    THEN CHOOSE v \in 1..40 : FitsVersion(t, v) /\ \A u \in 1..(v - 1) : ~FitsVersion(t, u)
    ELSE 40

\* canvas.width after QRCode.toCanvas with margin 2 and width w: getScale
\* uses w / n only when w >= n (else scale 4), getImageWidth floors n * scale
ImageWidth(t, w) ==
    LET n == 4 * BestVersion(t) + 17 + 4
    IN IF w >= n THEN (IF <<w, n>> \in FloatShortfall THEN w - 1 ELSE w)
       ELSE 4 * n

ShouldGenerateAlways(t) == TRUE

\* `if (text)`: the guard of the timeout callback and of generateQRCode
ShouldGenerate(t) == t.len # 0

LightOpaque(s) == IF s.transp THEN Black ELSE s.bgColor

\* light: isBgTransparent ? '#00000000' : bgColor
Light(s) == IF s.transp THEN TransparentLight ELSE s.bgColor

ArmTimerNoCleanup(ts, s) == ts \cup {s}

\* the effect's cleanup clears the previous timeout before arming a new one
ArmTimer(ts, s) == {s}

VARIABLES
    text, qrColor, bgColor, isBgTransparent, logoFile, logoSizePercent,
    qrSize, isGenerated,
    timers,        \* armed setTimeout callbacks, each with its render's snapshot
    pending,       \* generateQRCode calls suspended on the logo image decode
    canvas,        \* the surface: width, base QR drawn, logos drawn on top
    objectUrls,    \* object URLs created and not revoked
    lastEncode,    \* <<options>> of the latest QRCode.toCanvas call, <<>> before any
    genSeq,        \* number of generateQRCode calls that passed the guard
    changes,       \* number of user edits so far
    textEditSeq,   \* genSeq at the latest text edit
    okSeq,         \* id of the call that last set isGenerated to true
    everText,      \* text has been non-empty at some point
    runsSinceChange, \* generations started since the latest edit
    burst,         \* edits since the previous timer firing
    lastOutcome,   \* outcome of the latest completed call
    latestOutcome  \* outcome of the latest started call

vars == <<text, qrColor, bgColor, isBgTransparent, logoFile, logoSizePercent,
          qrSize, isGenerated, timers, pending, canvas, objectUrls, lastEncode,
          genSeq, changes, textEditSeq, okSeq, everText, runsSinceChange,
          burst, lastOutcome, latestOutcome>>

Params == [text |-> text, qrColor |-> qrColor, bgColor |-> bgColor,
           transp |-> isBgTransparent, logo |-> logoFile,
           logoSize |-> logoSizePercent, qrSize |-> qrSize]

\* What a completed render of snapshot s leaves on the surface.
Render(s) == [w |-> ImageWidth(s.text, s.qrSize),
              base |-> <<s.text, s.qrColor, Light(s)>>,
              logos |-> IF s.logo = NoFile THEN <<>>
                        ELSE <<<<s.logo, ImageWidth(s.text, s.qrSize), s.logoSize>>>>]

Init ==
    /\ text = EmptyText
    /\ qrColor = Black
    /\ bgColor = White
    /\ isBgTransparent = FALSE
    /\ logoFile = NoFile
    /\ logoSizePercent = 20
    /\ qrSize = 256
    /\ isGenerated = FALSE
    /\ timers = ArmTimer({}, Params)     \* the effect runs on mount
    /\ pending = {}
    /\ canvas = [w |-> 300, base |-> "blank", logos |-> <<>>]
    /\ objectUrls = 0
    /\ lastEncode = <<>>
    /\ genSeq = 0
    /\ changes = 0
    /\ textEditSeq = 0
    /\ okSeq = 0
    /\ everText = FALSE
    /\ runsSinceChange = 0
    /\ burst = 0
    /\ lastOutcome = "none"
    /\ latestOutcome = "none"

\* A state update that changes an effect dependency: React re-renders and the
\* effect's cleanup + body re-arm the timeout with the new snapshot.
Rearm(np) ==
    /\ timers' = ArmTimer(timers, np)
    /\ changes' = changes + 1
    /\ runsSinceChange' = 0
    /\ burst' = IF timers = {} THEN 1 ELSE burst + 1

CommonEditUnchanged ==
    UNCHANGED <<pending, canvas, objectUrls, lastEncode, genSeq, okSeq,
                lastOutcome, latestOutcome>>

\* <input type="text" onChange>: setText(v); setIsGenerated(false)
SetText(t) ==
    /\ changes < MaxChanges
    /\ t # text
    /\ text' = t
    /\ isGenerated' = FALSE
    /\ textEditSeq' = genSeq
    /\ everText' = (everText \/ t # EmptyText)
    /\ Rearm([Params EXCEPT !.text = t])
    /\ UNCHANGED <<qrColor, bgColor, isBgTransparent, logoFile,
                   logoSizePercent, qrSize>>
    /\ CommonEditUnchanged

\* Edits of the other effect dependencies; isGenerated is left as it is.
OtherEditUnchanged ==
    /\ UNCHANGED <<text, isGenerated, textEditSeq, everText>>
    /\ CommonEditUnchanged

\* <input type="color" onChange={setQrColor}>
SetQrColor(c) ==
    /\ changes < MaxChanges
    /\ c # qrColor
    /\ qrColor' = c
    /\ Rearm([Params EXCEPT !.qrColor = c])
    /\ UNCHANGED <<bgColor, isBgTransparent, logoFile, logoSizePercent, qrSize>>
    /\ OtherEditUnchanged

\* background colour picker, rendered only while !isBgTransparent
SetBgColor(c) ==
    /\ changes < MaxChanges
    /\ ~isBgTransparent
    /\ c # bgColor
    /\ bgColor' = c
    /\ Rearm([Params EXCEPT !.bgColor = c])
    /\ UNCHANGED <<qrColor, isBgTransparent, logoFile, logoSizePercent, qrSize>>
    /\ OtherEditUnchanged

\* transparency checkbox
SetIsBgTransparent(b) ==
    /\ changes < MaxChanges
    /\ b # isBgTransparent
    /\ isBgTransparent' = b
    /\ Rearm([Params EXCEPT !.transp = b])
    /\ UNCHANGED <<qrColor, bgColor, logoFile, logoSizePercent, qrSize>>
    /\ OtherEditUnchanged

SetLogo(f) ==
    /\ logoFile' = f
    /\ Rearm([Params EXCEPT !.logo = f])
    /\ UNCHANGED <<qrColor, bgColor, isBgTransparent, logoSizePercent, qrSize>>
    /\ OtherEditUnchanged

\* handleFileDrop: drop zone rendered only while !logoFile
HandleFileDrop(f) ==
    /\ changes < MaxChanges
    /\ logoFile = NoFile
    /\ IF IsImage(f) THEN SetLogo(f)
       ELSE UNCHANGED vars

\* <input type="file" accept="image/*" onChange>: setLogoFile(files[0]);
\* accept only pre-filters the browser's dialog, any file can be chosen
PickFile(f) ==
    /\ changes < MaxChanges
    /\ logoFile = NoFile
    /\ SetLogo(f)

\* "Remove" button, rendered only while logoFile is set
RemoveLogo ==
    /\ changes < MaxChanges
    /\ logoFile # NoFile
    /\ SetLogo(NoFile)

\* logo size slider, disabled while !logoFile
SetLogoSizePercent(v) ==
    /\ changes < MaxChanges
    /\ logoFile # NoFile
    /\ v # logoSizePercent
    /\ logoSizePercent' = v
    /\ Rearm([Params EXCEPT !.logoSize = v])
    /\ UNCHANGED <<qrColor, bgColor, isBgTransparent, logoFile, qrSize>>
    /\ OtherEditUnchanged

\* QR dimension slider
SetQrSize(v) ==
    /\ changes < MaxChanges
    /\ v # qrSize
    /\ qrSize' = v
    /\ Rearm([Params EXCEPT !.qrSize = v])
    /\ UNCHANGED <<qrColor, bgColor, isBgTransparent, logoFile, logoSizePercent>>
    /\ OtherEditUnchanged

CatchStatusKeep(b) == b

\* catch (err) { setIsGenerated(false) }
CatchStatus(b) == FALSE

\* The timeout fires: `if (text) generateQRCode()` with the closure's snapshot s.
\* generateQRCode runs synchronously up to the logo decode: canvas.width =
\* qrSize (clears it), QRCode.toCanvas, then either setIsGenerated(true) or,
\* with a logo, createObjectURL + wait for img.onload / img.onerror.
TimerFire(s) ==
    /\ s \in timers
    /\ timers' = timers \ {s}
    /\ burst' = burst
    /\ IF ShouldGenerate(s.text)
       THEN LET id == genSeq + 1
                opts == [snap |-> s, dark |-> s.qrColor, light |-> Light(s)]
            IN /\ genSeq' = id
               /\ runsSinceChange' = runsSinceChange + 1
               /\ lastEncode' = <<opts>>
               /\ IF ~EncodeOk(s.text)
                  THEN /\ canvas' = [w |-> s.qrSize, base |-> "cleared", logos |-> <<>>]
                       /\ isGenerated' = CatchStatus(isGenerated)
                       /\ lastOutcome' = "fail"
                       /\ latestOutcome' = "fail"
                       /\ UNCHANGED <<pending, objectUrls, okSeq>>
                  ELSE /\ canvas' = [w |-> ImageWidth(s.text, s.qrSize),
                                     base |-> <<s.text, opts.dark, opts.light>>,
                                     logos |-> <<>>]
                       /\ IF s.logo = NoFile
                          THEN /\ isGenerated' = TRUE
                               /\ okSeq' = id
                               /\ lastOutcome' = "ok"
                               /\ latestOutcome' = "ok"
                               /\ UNCHANGED <<pending, objectUrls>>
                          ELSE /\ pending' = pending \cup {[id |-> id, snap |-> s]}
                               /\ objectUrls' = objectUrls + 1
                               /\ latestOutcome' = "pending"
                               /\ UNCHANGED <<isGenerated, okSeq, lastOutcome>>
       ELSE UNCHANGED <<genSeq, runsSinceChange, lastEncode, canvas, isGenerated,
                        lastOutcome, latestOutcome, pending, objectUrls, okSeq>>
    /\ UNCHANGED <<text, qrColor, bgColor, isBgTransparent, logoFile,
                   logoSizePercent, qrSize, changes, textEditSeq, everText>>

\* img.onload: draw the logo sized from the canvas's current width, resolve,
\* setIsGenerated(true).  img.onerror: reject, caught, setIsGenerated(false).
\* The object URL is not revoked on either path.
LogoDecode(g) ==
    /\ g \in pending
    /\ pending' = pending \ {g}
    /\ IF g.snap.logo.decodes
       THEN /\ canvas' = [canvas EXCEPT !.logos =
                             Append(@, <<g.snap.logo, canvas.w, g.snap.logoSize>>)]
            /\ isGenerated' = TRUE
            /\ okSeq' = g.id
            /\ lastOutcome' = "ok"
            /\ latestOutcome' = IF g.id = genSeq THEN "ok" ELSE latestOutcome
       ELSE /\ isGenerated' = CatchStatus(isGenerated)
            /\ lastOutcome' = "fail"
            /\ latestOutcome' = IF g.id = genSeq THEN "fail" ELSE latestOutcome
            /\ UNCHANGED <<canvas, okSeq>>
    /\ UNCHANGED <<text, qrColor, bgColor, isBgTransparent, logoFile,
                   logoSizePercent, qrSize, timers, objectUrls, lastEncode,
                   genSeq, changes, textEditSeq, everText, runsSinceChange, burst>>

Next ==
    \/ \E t \in Texts : SetText(t)
    \/ \E c \in QrColors : SetQrColor(c)
    \/ \E c \in BgColors : SetBgColor(c)
    \/ \E b \in BOOLEAN : SetIsBgTransparent(b)
    \/ \E f \in Files : HandleFileDrop(f)
    \/ \E f \in Files : PickFile(f)
    \/ RemoveLogo
    \/ \E v \in LogoSizes : SetLogoSizePercent(v)
    \/ \E v \in QrSizes : SetQrSize(v)
    \/ \E s \in timers : TimerFire(s)
    \/ \E g \in pending : LogoDecode(g)

Spec == Init /\ [][Next]_vars

FairSpec == Spec /\ WF_vars(\E s \in timers : TimerFire(s))
                 /\ WF_vars(\E g \in pending : LogoDecode(g))

\* ================================================================ properties

\* C1: whenever the download button is visible (isGenerated), the surface
\* holds a completed render of the current parameters.
C1_ExportGatedOnReady == isGenerated => canvas = Render(Params)

\* C2: debounce coalescing. Every armed timeout carries the snapshot of the
\* latest edit, at most one generation starts per burst of edits, a firing
\* with non-empty text starts exactly one, and an armed timeout eventually
\* fires.
C2_DebounceInv ==
    /\ \A s \in timers : s = Params
    /\ runsSinceChange <= 1
C2_FireStep ==
    \E s \in timers : TimerFire(s) /\ timers' = {}
        /\ runsSinceChange' = IF s.text # EmptyText THEN 1 ELSE 0
C2_Debounce ==
    /\ []C2_DebounceInv
    /\ [][(timers # {} /\ timers' = {} /\ changes' = changes) => C2_FireStep]_vars
    /\ (timers # {}) ~> (timers = {})
C2_Witness == runsSinceChange = 1 /\ burst >= 2 /\ timers = {}

\* C3: at most one generation is in flight, and only a generation for the
\* newest snapshot can write the surface or the status.
C3_StaleWrite == \E g \in pending : g.id < genSeq /\ LogoDecode(g)
C3_NoStaleRender ==
    /\ [](Cardinality(pending) <= 1)
    /\ [][~C3_StaleWrite]_vars

\* C4: no generation starts while text is empty; if text has never been
\* non-empty, the status is false and nothing ran.
C4_EmptyTextNoRegeneration ==
    /\ [](~everText => (~isGenerated /\ genSeq = 0 /\ pending = {}))
    /\ [][genSeq' > genSeq => text # EmptyText]_vars
C4_Witness == ~everText /\ changes >= 2 /\ timers = {}

\* C5: a text edit resets the status in the same step, and the button stays
\* hidden until a generation started after that edit succeeds.
C5_TextEditResets ==
    /\ [][text' # text => ~isGenerated']_vars
    /\ [](isGenerated => okSeq > textEditSeq)

\* C6: no object URL stays unreleased once no logo decode is pending.
C6_ObjectUrlsReleased == pending = {} => objectUrls = 0

\* C7: a failed cycle (encode or logo decode) leaves the status false, and
\* any later edit re-arms the debounce.
C7_ErrorsCaught ==
    /\ [](lastOutcome = "fail" => ~isGenerated)
    /\ [][changes' > changes => timers' # {}]_vars
C7_Witness == lastOutcome = "fail" /\ genSeq >= 1 /\ timers # {}

\* C8: the logo parameter only ever holds an image/* file.
C8_LogoIsImage == logoFile = NoFile \/ IsImage(logoFile)

\* C9: every encode call uses a zero-alpha light colour when transparency is
\* set, backgroundColor otherwise, and foregroundColor as the dark colour.
C9_TransparencyInv ==
    \A e \in {lastEncode[i] : i \in DOMAIN lastEncode} :
        /\ e.snap.transp => Alpha(e.light) = 0
        /\ ~e.snap.transp => e.light = e.snap.bgColor
        /\ e.dark = e.snap.qrColor
C9_Witness ==
    /\ lastEncode # <<>>
    /\ lastEncode[1].snap.transp
    /\ lastEncode[1].snap.bgColor = Green

\* C10: once edits stop with non-empty text and nothing is scheduled or in
\* flight, the status is the outcome of the latest generation.
Quiescent == timers = {} /\ pending = {}
C10_SettlesToLatest ==
    (Quiescent /\ text # EmptyText /\ genSeq > 0)
        => (isGenerated <=> latestOutcome = "ok")

====
